---- MODULE Spec2Model ----
(***************************************************************************)
(* Model of the LifecycleEngine (core/LifecycleEngine.ts): the engine      *)
(* state machine, the phase runner, the module executor (timeout + retry), *)
(* the event history and the statistics.                                   *)
(*                                                                         *)
(* initialize() and start() are async functions: a call is a frame with a  *)
(* position (pc) that advances from one suspension point (await) to the    *)
(* next in one atomic step, as the JavaScript run-to-completion rule       *)
(* dictates.  pause(), resume(), stop(), registerModule(), addObserver()   *)
(* and removeObserver() are synchronous and may be issued whenever no      *)
(* frame is running, in particular while frames are suspended.             *)
(*                                                                         *)
(* Spec has the sessions of an engine without listeners whose modules      *)
(* leave the context's data map alone; ListenerSpec adds                   *)
(* addEventListener(), removeEventListener() and the promises of async     *)
(* listeners, ContextSpec the modules' set/delete/clear on the data map,   *)
(* LiveSpec the fairness of the event loop, and HistorySpec the engines    *)
(* constructed with saveHistory = false and the getEventHistory() calls.   *)
(***************************************************************************)
EXTENDS Integers, Sequences, FiniteSets, TLC

\* ---------------------------------------------------------------- bounds
MaxOps == 5            \* public calls issued on one engine, an initialize()
                       \* or start() counted twice
MaxCalls == 2          \* initialize()/start() calls issued on one engine
MaxControl == 2        \* pause()/resume()/stop() calls issued
MaxModules == 3        \* registerModule() calls issued
MaxObserverOps == 1    \* addObserver()/removeObserver() calls issued
MaxListenerOps == 2    \* addEventListener()/removeEventListener() calls issued
MaxRetriesBound == 1   \* config.maxRetries is 0 or MaxRetriesBound
HistorySizeBound == 2  \* config.maxHistorySize of the modelled engine
MaxLiveOps == 4        \* public calls issued (counted as for MaxOps) in the
                       \* sessions whose termination is checked
MaxQueries == 1        \* getEventHistory() calls issued
MaxHistoryOps == 3     \* public calls issued (counted as for MaxOps) in the
                       \* sessions with getEventHistory() calls

\* ------------------------------------------------- enums of the program
INITIALIZATION == 1
PREPARATION == 2
VALIDATION == 3
EXECUTION == 4
MONITORING == 5
CLEANUP == 6

LifecyclePhase == INITIALIZATION..CLEANUP

LifecycleState ==
  {"UNINITIALIZED", "PREPARING", "RUNNING", "PAUSED", "STOPPED", "ERROR"}

EventLevel == {"DEBUG", "INFO", "WARN", "ERROR", "CRITICAL"}

\* phases a module is registered to in the model (input set)
RegPhases == {INITIALIZATION, VALIDATION, EXECUTION}

\* observer objects offered to addObserver: the hooks each one defines
ObserverHooks ==
  [full |-> {"onInitializationStart", "onInitializationComplete",
             "onPreparationStart", "onPreparationComplete", "onError"},
   errorOnly |-> {"onError"}]

Observers == DOMAIN ObserverHooks

\* values offered to registerModule as the module: a module object with all
\* the methods of the interface, null, and an object without initialize
ModuleObjects ==
  [wellFormed |-> [isNull |-> FALSE, hasInitialize |-> TRUE],
   null |-> [isNull |-> TRUE, hasInitialize |-> FALSE],
   noInitialize |-> [isNull |-> FALSE, hasInitialize |-> FALSE]]

\* listener functions offered to addEventListener: whether the function
\* returns a Promise (an async listener) or undefined
ListenerReturnsPromise == [plain |-> FALSE, async |-> TRUE]

Listeners == DOMAIN ListenerReturnsPromise

VARIABLES
  state,         \* this.state
  currentPhase,  \* this.currentPhase (0 = undefined)
  modules,       \* this.modules: phase -> sequence of module ids
  observers,     \* this.observers
  listeners,     \* this.listeners
  notified,      \* the listeners called with the event emitted last
  pending,       \* listeners with a returned promise that has not settled
  eventHistory,  \* this.eventHistory
  eventCounter,  \* this.eventCounter
  stats,         \* this.stats (global counters)
  phaseStats,    \* this.stats.phaseStats
  config,        \* this.config
  context,       \* this.context
  calls,         \* frames of the initialize()/start() calls
  abandoned,     \* modules with a timed-out execute invocation still going on
  issued,        \* number of synchronous calls issued, per kind
  returned       \* the last getEventHistory call: its arguments and result

vars == <<state, currentPhase, modules, observers, listeners, notified, pending,
          eventHistory, eventCounter, stats, phaseStats, config, context, calls,
          abandoned, issued, returned>>

Calls == 1..MaxCalls

\* (variant: two phases exchanged in the list)
phasesSwapped == <<PREPARATION, EXECUTION, VALIDATION, MONITORING, CLEANUP>>

\* the phases start() walks through, in order
phases == <<PREPARATION, VALIDATION, EXECUTION, MONITORING, CLEANUP>>

\* keys the modules use in the context's data map
Keys == {"a", "b"}

\* `new Map()`: no key has a value (0 = the key is absent)
emptyMap == [k \in Keys |-> 0]

NoContext ==
  [exists |-> FALSE, currentPhase |-> 0, previousPhase |-> 0,
   events |-> <<>>, errors |-> <<>>, data |-> emptyMap]

IdleFrame ==
  [op |-> "none", pc |-> "idle", inInit |-> FALSE, phase |-> 0, idx |-> 0,
   live |-> FALSE, retries |-> 0, hooked |-> FALSE,
   result |-> "pending", error |-> "none",
   \* history of the call, kept for the properties
   entered |-> <<>>, finished |-> <<>>, ran |-> <<>>, invocations |-> 0,
   settled |-> <<>>, initRan |-> FALSE, log |-> <<>>,
   hooks |-> <<>>, phaseErrors |-> <<>>]

\* ------------------------------------------------------------ the engine
\* the engine fields a frame step reads and writes, as one record
Eng ==
  [state |-> state, currentPhase |-> currentPhase,
   eventHistory |-> eventHistory, eventCounter |-> eventCounter,
   stats |-> stats, phaseStats |-> phaseStats, context |-> context,
   listeners |-> listeners, notified |-> notified, pending |-> pending]

\* F applied to the value of R, which is computed once
Once(R, F(_)) == CHOOSE r \in {F(S) : S \in {R}} : TRUE

createContext(e) ==
  [exists |-> TRUE,
   currentPhase |-> IF e.currentPhase # 0 THEN e.currentPhase ELSE INITIALIZATION,
   previousPhase |-> 0, events |-> <<>>, errors |-> <<>>, data |-> emptyMap]

\* the operations of the context object on its data map
\* (context.get, context.set, context.delete, context.clear)
get(ctx, key) == ctx.data[key]

set(ctx, key, value) == [ctx EXCEPT !.data[key] = value]

delete(ctx, key) == [ctx EXCEPT !.data[key] = 0]

clear(ctx) == [ctx EXCEPT !.data = emptyMap]

\* (variant: every call makes a new context)
getContextAlwaysNew(e) == [e EXCEPT !.context = createContext(e)]

getContext(e) ==
  IF e.context.exists THEN e ELSE [e EXCEPT !.context = createContext(e)]

\* (variant: a full history drops the new event, not its oldest one)
PushHistoryKeepsOldest(h, ev) ==
  IF ~config.saveHistory THEN h
  ELSE LET h1 == Append(h, ev)
       IN IF Len(h1) > config.maxHistorySize THEN h ELSE h1

\* eventHistory.push(fullEvent), then shift() when over maxHistorySize
PushHistory(h, ev) ==
  IF ~config.saveHistory THEN h
  ELSE LET h1 == Append(h, ev)
       IN IF Len(h1) > config.maxHistorySize THEN Tail(h1) ELSE h1

\* (variant: an event that is not saved is not delivered either)
notifyListenersIfSaved(e) ==
  Once(e, LAMBDA x :
    IF config.saveHistory
    THEN [x EXCEPT !.notified = x.listeners,
                   !.pending = @ \cup {l \in x.listeners : ListenerReturnsPromise[l]}]
    ELSE x)

\* notifyListeners(event) up to its await: every listener of the Set is
\* called once, the promises returned are collected
notifyListeners(e) ==
  Once(e, LAMBDA x :
    [x EXCEPT !.notified = x.listeners,
              !.pending = @ \cup {l \in x.listeners : ListenerReturnsPromise[l]}])

\* (variant: the context's event list is bounded like the history)
logEventBoundedContext(e0, phase, type, level) ==
  Once(e0, LAMBDA e :
    LET id == e.eventCounter + 1
        ph == IF phase # 0 THEN phase
              ELSE IF e.currentPhase # 0 THEN e.currentPhase ELSE INITIALIZATION
        ev == [id |-> id, phase |-> ph, type |-> type, level |-> level]
        all == Append(e.context.events, id)
    IN notifyListeners(
         [e EXCEPT
            !.eventCounter = id,
            !.eventHistory = PushHistory(e.eventHistory, ev),
            !.context = IF e.context.exists
                        THEN [e.context EXCEPT !.events =
                                IF Len(all) > config.maxHistorySize
                                THEN Tail(all) ELSE all]
                        ELSE e.context]))

\* logEvent is not async and does not await the promise of notifyListeners:
\* it returns while the listeners' promises are pending.  The event object
\* pushed on the history and on the context's list is the same one; the
\* context's list is modelled by the ids of its events.
logEvent(e0, phase, type, level) ==
  Once(e0, LAMBDA e :
    LET id == e.eventCounter + 1
        ph == IF phase # 0 THEN phase
              ELSE IF e.currentPhase # 0 THEN e.currentPhase ELSE INITIALIZATION
        ev == [id |-> id, phase |-> ph, type |-> type, level |-> level]
    IN notifyListeners(
         [e EXCEPT
            !.eventCounter = id,
            !.eventHistory = PushHistory(e.eventHistory, ev),
            !.context = IF e.context.exists
                        THEN [e.context EXCEPT !.events = Append(@, id)]
                        ELSE e.context]))

handleLifecycleError(e) ==
  logEvent(e, IF e.currentPhase # 0 THEN e.currentPhase ELSE INITIALIZATION,
           "lifecycle_error", "CRITICAL")

\* (variant: a failed execution is counted as an execution only)
UpdatePhaseStatsSuccessOnly(e, phase, ok) ==
  [e EXCEPT !.phaseStats[phase] =
     [executionCount |-> @.executionCount + 1,
      successCount |-> @.successCount + (IF ok THEN 1 ELSE 0),
      failureCount |-> @.failureCount]]

\* the finally block of executePhase
UpdatePhaseStats(e, phase, ok) ==
  [e EXCEPT !.phaseStats[phase] =
     [executionCount |-> @.executionCount + 1,
      successCount |-> @.successCount + (IF ok THEN 1 ELSE 0),
      failureCount |-> @.failureCount + (IF ok THEN 0 ELSE 1)]]

\* some registered observer defines the method
HasHook(method) == \E o \in observers : method \in ObserverHooks[o]

\* `onStartMethod in this.observers.values()`: the operand is the iterator
\* object of the Set, which has no property named after a hook
HookInObserverValues(method) == FALSE

getPhaseMethodName(phase) ==
  <<"Initialization", "Preparation", "Validation", "Execution", "Monitoring",
    "Cleanup">>[phase]

\* the names executePhase builds: `on${getPhaseMethodName(phase)}Start` and
\* `on${getPhaseMethodName(phase)}Complete`
onStartMethod(phase) == "on" \o getPhaseMethodName(phase) \o "Start"

onCompleteMethod(phase) == "on" \o getPhaseMethodName(phase) \o "Complete"

\* notifyObserversByMethod(methodName): the method is called on every
\* observer that defines it (the call is kept in the frame's `hooks`)
notifyObserversByMethod(S, methodName) ==
  LET defining == {o \in observers : methodName \in ObserverHooks[o]}
  IN [S EXCEPT !.f.hooks = @ \o [k \in 1..(IF defining = {} THEN 0 ELSE 1) |->
                                   [method |-> methodName, on |-> defining,
                                    args |-> <<>>]]]

\* notifyObserversError(error, phase) up to its await: onError(error, phase)
\* is called on every observer that defines it
notifyObserversError(S, err, phase) ==
  LET defining == {o \in observers : "onError" \in ObserverHooks[o]}
  IN [S EXCEPT !.f.hooks = @ \o [k \in 1..(IF defining = {} THEN 0 ELSE 1) |->
                                   [method |-> "onError", on |-> defining,
                                    args |-> <<err, phase>>]]]

\* (variant: the observers are not told about the error)
handlePhaseErrorWithoutObservers(R, err, phase) ==
  Once(R, LAMBDA S :
    LET e1 == IF S.e.context.exists
              THEN [S.e EXCEPT !.context.errors =
                      Append(@, [phase |-> phase, error |-> err])]
              ELSE S.e
    IN [S EXCEPT !.e = logEvent(e1, phase, "phase_error", "ERROR"),
                 !.f.phaseErrors = Append(@, [phase |-> phase, level |-> "ERROR"])])

\* handlePhaseError(error, phase); the promise of notifyObserversError is
\* not awaited.  The 'phase_error' event logged is kept in the frame's
\* `phaseErrors` as well.
handlePhaseError(R, err, phase) ==
  Once(R, LAMBDA S :
    LET e1 == IF S.e.context.exists
              THEN [S.e EXCEPT !.context.errors =
                      Append(@, [phase |-> phase, error |-> err])]
              ELSE S.e
    IN notifyObserversError(
         [S EXCEPT !.e = logEvent(e1, phase, "phase_error", "ERROR"),
                   !.f.phaseErrors = Append(@, [phase |-> phase, level |-> "ERROR"])],
         err, phase))

\* --------------------------------------------------------- the executor
\* (variant: the test is off by one)
RetriesExhaustedEarly(retries) == retries >= config.maxRetries

\* the retry test of executeModule's catch block, after retries++
RetriesExhausted(retries) == retries > config.maxRetries

\* (variant: a failed engine may be started again)
StartAllowedAfterError(st) == st \in {"STOPPED", "PAUSED", "ERROR"}

\* the guard of start()
StartAllowed(st) == st \in {"STOPPED", "PAUSED"}

\* (variant: a stopped engine may be initialized again)
InitializeAllowedWhenStopped(st) == st \in {"UNINITIALIZED", "STOPPED"}

\* the guard of initialize()
InitializeAllowed(st) == st = "UNINITIALIZED"

\* (variant: the option is never consulted and every failure is swallowed)
RethrowPhaseErrorNever == FALSE

\* executePhase's catch block: `if (!this.config.continueOnError) throw error`
RethrowPhaseError == ~config.continueOnError


\* ---------------------------------------------------- steps of a frame
\* A step works on S = [e: the engine fields, f: the frame of the call] and
\* runs the code from one suspension point to the next.

Done(f, result, err) ==
  [f EXCEPT !.pc = "done", !.result = result, !.error = err]

\* executeModule's logEvent({phase, type, level}), phase = module.phase
LogModuleEvent(S, type, level) ==
  [S EXCEPT
     !.e = logEvent(S.e, modules[S.f.phase][S.f.idx].phase, type, level),
     !.f.log = Append(@, [type |-> type, level |-> level])]

\* executeModule: one pass of the loop body up to `await Promise.race(..)`
BeginAttempt(R, c) ==
  Once(R, LAMBDA S :
    LET S1 == LogModuleEvent(S, "module_execute_start", "DEBUG")
    IN [S1 EXCEPT !.f.pc = "race", !.f.invocations = @ + 1])

\* executeModule(module, context) called for the i-th module of the phase
executeModule(R, c, i) ==
  Once(R, LAMBDA S :
    BeginAttempt([S EXCEPT !.f.idx = i, !.f.retries = 0, !.f.invocations = 0,
                           !.f.log = <<>>,
                           !.f.ran = Append(@, <<S.f.phase, i>>)], c))

\* (variant: the loop over the modules starts at the second one)
executePhaseModulesFromSecond(R, c) ==
  Once(R, LAMBDA S :
    IF modules[S.f.phase] = <<>>
    THEN [S EXCEPT !.f.pc = "phaseAwait", !.f.live = FALSE, !.f.idx = 0]
    ELSE executeModule([S EXCEPT !.f.live = TRUE], c,
                       IF Len(modules[S.f.phase]) > 1 THEN 2 ELSE 1))

\* executePhaseModules(phase): `this.modules.get(phase) || []`, then the
\* first iteration of the for-of loop
executePhaseModules(R, c) ==
  Once(R, LAMBDA S :
    IF modules[S.f.phase] = <<>>
    THEN [S EXCEPT !.f.pc = "phaseAwait", !.f.live = FALSE, !.f.idx = 0]
    ELSE executeModule([S EXCEPT !.f.live = TRUE], c, 1))

\* (variant: the phase does not run its modules)
executePhaseSkipsModules(R, c, phase) ==
  Once(R, LAMBDA S :
    LET e1 == getContext([S.e EXCEPT !.currentPhase = phase])
        e2 == [e1 EXCEPT !.context.previousPhase = e1.context.currentPhase,
                         !.context.currentPhase = phase]
        e3 == logEvent(e2, phase, "phase_start", "INFO")
    IN [S EXCEPT !.e = e3, !.f.phase = phase, !.f.entered = Append(@, phase),
                 !.f.pc = "phaseAwait", !.f.live = FALSE, !.f.idx = 0])

\* executePhase(phase) up to `await this.executePhaseModules(phase)`; the
\* observers' start hook is guarded by `onStartMethod in
\* this.observers.values()`, so the await inside the guard is no suspension
\* point of the call
executePhase(R, c, phase) ==
  Once(R, LAMBDA S :
    LET e1 == getContext([S.e EXCEPT !.currentPhase = phase])
        e2 == [e1 EXCEPT !.context.previousPhase = e1.context.currentPhase,
                         !.context.currentPhase = phase]
        S1 == IF HookInObserverValues(onStartMethod(phase))
              THEN notifyObserversByMethod(S, onStartMethod(phase))
              ELSE S
        e3 == logEvent(e2, phase, "phase_start", "INFO")
    IN executePhaseModules(
         [S1 EXCEPT !.e = e3, !.f.phase = phase,
                    !.f.entered = Append(@, phase)], c))

\* the position of a phase in start()'s list
PhasePos(p) == CHOOSE i \in 1..Len(phases) : phases[i] = p

\* (variant: a run in which a phase failed is counted as a failed run)
LifecycleCompleteCountsFailures(R) ==
  Once(R, LAMBDA S :
    LET failed == S.f.phaseErrors # <<>>
        e1 == [S.e EXCEPT
                 !.stats.totalExecutions = @ + 1,
                 !.stats.successfulExecutions = @ + (IF failed THEN 0 ELSE 1),
                 !.stats.failedExecutions = @ + (IF failed THEN 1 ELSE 0),
                 !.state = "STOPPED"]
    IN [S EXCEPT !.e = logEvent(e1, CLEANUP, "lifecycle_complete", "INFO"),
                 !.f = Done(S.f, "returned", "none")])

\* (variant: a run that ends leaves a paused engine paused)
LifecycleCompleteKeepsPaused(R) ==
  Once(R, LAMBDA S :
    LET e1 == [S.e EXCEPT
                 !.stats.totalExecutions = @ + 1,
                 !.stats.successfulExecutions = @ + 1,
                 !.state = IF @ = "PAUSED" THEN @ ELSE "STOPPED"]
    IN [S EXCEPT !.e = logEvent(e1, CLEANUP, "lifecycle_complete", "INFO"),
                 !.f = Done(S.f, "returned", "none")])

\* start(): the code after the for loop over the phases
LifecycleComplete(R) ==
  Once(R, LAMBDA S :
    LET e1 == [S.e EXCEPT
                 !.stats.totalExecutions = @ + 1,
                 !.stats.successfulExecutions = @ + 1,
                 !.state = "STOPPED"]
    IN [S EXCEPT !.e = logEvent(e1, CLEANUP, "lifecycle_complete", "INFO"),
                 !.f = Done(S.f, "returned", "none")])

\* start(): the next iteration of `for (const phase of phases)`
NextPhase(R, c) ==
  Once(R, LAMBDA S :
    IF PhasePos(S.f.phase) = Len(phases)
    THEN LifecycleComplete(S)
    ELSE executePhase(S, c, phases[PhasePos(S.f.phase) + 1]))

\* (variant: a failed run is counted as failed but not as an execution)
StartFailsUncounted(R, err) ==
  Once(R, LAMBDA S :
    LET e1 == [S.e EXCEPT
                 !.state = "ERROR",
                 !.stats.failedExecutions = @ + 1]
    IN [S EXCEPT !.e = handleLifecycleError(e1),
                 !.f = Done(S.f, "threw", err)])

\* start(): the catch block
StartFails(R, err) ==
  Once(R, LAMBDA S :
    LET e1 == [S.e EXCEPT
                 !.state = "ERROR",
                 !.stats.totalExecutions = @ + 1,
                 !.stats.failedExecutions = @ + 1]
    IN [S EXCEPT !.e = handleLifecycleError(e1),
                 !.f = Done(S.f, "threw", err)])

\* (variant: the catch block leaves the state as it is)
InitializeFailsKeepsState(R, err) ==
  Once(R, LAMBDA S :
    LET S1 == handlePhaseError(S, err, INITIALIZATION)
    IN [S1 EXCEPT !.f = Done(S1.f, "threw", err)])

\* (variant: a start() whose initialization fails counts a failed run, as
\* if `await this.initialize()` were inside its try block)
InitializeFailsCountsRun(R, err) ==
  Once(R, LAMBDA S :
    LET S1 == handlePhaseError([S EXCEPT !.e.state = "ERROR"], err,
                               INITIALIZATION)
    IN IF S.f.op = "start"
       THEN StartFails(S1, err)
       ELSE [S1 EXCEPT !.f = Done(S1.f, "threw", err)])

\* initialize(): the catch block
InitializeFails(R, err) ==
  Once(R, LAMBDA S :
    LET S1 == handlePhaseError([S EXCEPT !.e.state = "ERROR"], err,
                               INITIALIZATION)
    IN [S1 EXCEPT !.f = Done(S1.f, "threw", err)])

\* initialize(): the code after the second notifyObservers; a start() that
\* awaited it resumes one tick later
InitializeSucceeds(R) ==
  Once(R, LAMBDA S :
    LET e1 == logEvent([S.e EXCEPT !.state = "STOPPED"], INITIALIZATION,
                       "initialization_complete", "INFO")
    IN [S EXCEPT !.e = e1,
                 !.f = IF S.f.op = "initialize"
                       THEN Done(S.f, "returned", "none")
                       ELSE [S.f EXCEPT !.pc = "afterInit", !.inInit = FALSE]])

\* executePhase(): the rest of the try block and the finally block
PhaseCompleted(R, c) ==
  Once(R, LAMBDA S :
    LET S1 == IF HookInObserverValues(onCompleteMethod(S.f.phase))
              THEN notifyObserversByMethod(S, onCompleteMethod(S.f.phase))
              ELSE S
        e1 == logEvent(S.e, S.f.phase, "phase_complete", "INFO")
        e2 == UpdatePhaseStats(e1, S.f.phase, TRUE)
    IN NextPhase([S1 EXCEPT !.e = e2,
                            !.f.finished = Append(@, S.f.phase)], c))

\* executePhaseModules returned to its caller
ModulesReturned(R, c) ==
  Once(R, LAMBDA S :
    IF S.f.inInit
    THEN [notifyObserversByMethod(S, "onInitializationComplete")
            EXCEPT !.f.pc = "obsComplete",
                   !.f.hooked = HasHook("onInitializationComplete")]
    ELSE PhaseCompleted(S, c))

\* (variant: with continueOnError the initialization goes on after a failed
\* module, too)
PhaseThrowsInitContinues(R, c, err) ==
  Once(R, LAMBDA S :
    IF S.f.inInit
    THEN IF config.continueOnError
         THEN IF S.f.idx < Len(modules[S.f.phase])
              THEN executeModule(S, c, S.f.idx + 1)
              ELSE ModulesReturned(S, c)
         ELSE InitializeFails(S, err)
    ELSE LET S0 == handlePhaseError(S, err, S.f.phase)
             e2 == UpdatePhaseStats(S0.e, S.f.phase, FALSE)
             S1 == [S0 EXCEPT !.e = e2, !.f.finished = Append(@, S.f.phase)]
         IN IF RethrowPhaseError
            THEN StartFails(S1, err)
            ELSE NextPhase(S1, c))

\* a module failure reaches the caller of executePhaseModules: the catch and
\* finally blocks of executePhase, or the catch block of initialize
PhaseThrows(R, c, err) ==
  Once(R, LAMBDA S :
    IF S.f.inInit
    THEN InitializeFails(S, err)
    ELSE LET S0 == handlePhaseError(S, err, S.f.phase)
             e2 == UpdatePhaseStats(S0.e, S.f.phase, FALSE)
             S1 == [S0 EXCEPT !.e = e2, !.f.finished = Append(@, S.f.phase)]
         IN IF RethrowPhaseError
            THEN StartFails(S1, err)
            ELSE NextPhase(S1, c))

\* executeModule returns or throws: the executor's last event is logged
Settled(R, ok, type, level) ==
  Once(LogModuleEvent(R, type, level), LAMBDA S :
    [S EXCEPT !.f.settled =
       Append(@, [phase |-> S.f.phase, idx |-> S.f.idx, ok |-> ok,
                  invocations |-> S.f.invocations, log |-> S.f.log])])

\* (variant: a retry is logged as an error)
RetryLevelError == "ERROR"

\* the level of the 'module_execute_retry' event
RetryLevel == "WARN"

\* (variant: the retry loop is not left on success while budget remains)
AttemptSucceededNoBreak(R, c) ==
  Once(R, LAMBDA S :
    LET S1 == Settled(S, TRUE, "module_execute_complete", "DEBUG")
    IN IF S.f.retries < config.maxRetries
       THEN BeginAttempt([S1 EXCEPT !.f.retries = @ + 1], c)
       ELSE IF S.f.idx < Len(modules[S.f.phase])
       THEN executeModule(S1, c, S.f.idx + 1)
       ELSE ModulesReturned(S1, c))

\* executeModule: the race was won by the module; then the for-of loop of
\* executePhaseModules goes on over the (live) array
AttemptSucceeded(R, c) ==
  Once(R, LAMBDA S :
    LET S1 == Settled(S, TRUE, "module_execute_complete", "DEBUG")
    IN IF S.f.idx < Len(modules[S.f.phase])
       THEN executeModule(S1, c, S.f.idx + 1)
       ELSE ModulesReturned(S1, c))

\* (variant: a failed attempt that will be retried is recorded as an error)
AttemptFailedRecordsRetry(R, c, err) ==
  Once(R, LAMBDA S :
    LET retries == S.f.retries + 1
    IN IF RetriesExhausted(retries)
       THEN PhaseThrows(
              [Settled(S, FALSE, "module_execute_failed", "ERROR")
                 EXCEPT !.f.retries = retries], c, err)
       ELSE [LogModuleEvent(handlePhaseError(S, err, S.f.phase),
                            "module_execute_retry", RetryLevel)
               EXCEPT !.f.retries = retries, !.f.pc = "retryDelay"])

\* executeModule: the catch block
AttemptFailed(R, c, err) ==
  Once(R, LAMBDA S :
    LET retries == S.f.retries + 1
    IN IF RetriesExhausted(retries)
       THEN PhaseThrows(
              [Settled(S, FALSE, "module_execute_failed", "ERROR")
                 EXCEPT !.f.retries = retries], c, err)
       ELSE [LogModuleEvent(S, "module_execute_retry", RetryLevel)
               EXCEPT !.f.retries = retries, !.f.pc = "retryDelay"])

\* (variant: every run starts with fresh counters)
StartBodyResetsStats(R, c) ==
  Once(R, LAMBDA S :
    LET e1 == logEvent([S.e EXCEPT
                          !.state = "RUNNING",
                          !.stats = [totalExecutions |-> 0,
                                     successfulExecutions |-> 0,
                                     failedExecutions |-> 0],
                          !.phaseStats = [p \in LifecyclePhase |->
                                            [executionCount |-> 0,
                                             successCount |-> 0,
                                             failureCount |-> 0]]],
                       INITIALIZATION, "lifecycle_start", "INFO")
    IN executePhase([S EXCEPT !.e = e1], c, phases[1]))

\* start(): the try block up to the first suspension
StartBody(R, c) ==
  Once(R, LAMBDA S :
    LET e1 == logEvent([S.e EXCEPT !.state = "RUNNING"], INITIALIZATION,
                       "lifecycle_start", "INFO")
    IN executePhase([S EXCEPT !.e = e1], c, phases[1]))

\* initialize(): the try block up to `await this.notifyObservers(..)`
InitializeBody(R) ==
  Once(R, LAMBDA S :
    LET e1 == [S.e EXCEPT !.state = "PREPARING"]
        e2 == [e1 EXCEPT !.context = createContext(e1)]
        e3 == logEvent(e2, INITIALIZATION, "initialization_start", "INFO")
    IN [notifyObserversByMethod(S, "onInitializationStart")
          EXCEPT !.e = e3,
                 !.f.pc = "obsStart", !.f.inInit = TRUE,
                 !.f.hooked = HasHook("onInitializationStart")])

\* the frame's step takes effect (R, the outcome of the step, is computed
\* once)
Commit(c, R) ==
  \E S \in {R} :
    /\ state' = S.e.state
    /\ currentPhase' = S.e.currentPhase
    /\ eventHistory' = S.e.eventHistory
    /\ eventCounter' = S.e.eventCounter
    /\ stats' = S.e.stats
    /\ phaseStats' = S.e.phaseStats
    /\ context' = S.e.context
    /\ listeners' = S.e.listeners
    /\ notified' = S.e.notified
    /\ pending' = S.e.pending
    /\ calls' = [calls EXCEPT ![c] = S.f]
    /\ UNCHANGED <<modules, observers, config, issued, returned>>

Here(c) == [e |-> Eng, f |-> calls[c]]

\* the number of public calls issued so far; an asynchronous call, which
\* brings a whole run with it, counts twice
OpsIssued ==
  issued.control + issued.modules + issued.observerOps + issued.listenerOps
    + issued.queries
    + 2 * Cardinality({c \in Calls : calls[c].pc # "idle"})

\* calls take the frames in order
FreeFrame(c) ==
  /\ OpsIssued + 2 <= MaxOps
  /\ calls[c].pc = "idle"
  /\ \A d \in Calls : d < c => calls[d].pc # "idle"

\* the module whose execute the frame is awaiting
CurrentModule(c) == modules[calls[c].phase][calls[c].idx]

\* ------------------------------------------------------------- actions
\* initialize() is called
Initialize(c) ==
  /\ FreeFrame(c)
  /\ LET S == [Here(c) EXCEPT !.f.op = "initialize"]
     IN IF ~InitializeAllowed(state)
        THEN Commit(c, [S EXCEPT !.f = Done(S.f, "threw", "alreadyInitialized")])
        ELSE Commit(c, InitializeBody(S))
  /\ UNCHANGED abandoned

\* start() is called
Start(c) ==
  /\ FreeFrame(c)
  /\ LET S == [Here(c) EXCEPT !.f.op = "start"]
     IN IF state = "UNINITIALIZED"
        THEN Commit(c, InitializeBody(S))
        ELSE IF ~StartAllowed(state)
        THEN Commit(c, [S EXCEPT !.f = Done(S.f, "threw", "invalidState")])
        ELSE Commit(c, StartBody(S, c))
  /\ UNCHANGED abandoned

\* start() resumes after `await this.initialize()`
StartAfterInitialize(c) ==
  /\ calls[c].pc = "afterInit"
  /\ IF ~StartAllowed(state)
     THEN Commit(c, [Here(c) EXCEPT !.f = Done(calls[c], "threw", "invalidState")])
     ELSE Commit(c, StartBody(Here(c), c))
  /\ UNCHANGED abandoned

\* the promises of the observers' initialization hooks settle
ObserversSettle(c, ok) ==
  /\ calls[c].pc \in {"obsStart", "obsComplete"}
  /\ ok \/ calls[c].hooked
  /\ IF ~ok
     THEN Commit(c, InitializeFails(Here(c), "observerFailed"))
     ELSE IF calls[c].pc = "obsStart"
     THEN Commit(c, executePhaseModules(
                      [Here(c) EXCEPT !.f.phase = INITIALIZATION,
                                      !.f.initRan = TRUE], c))
     ELSE Commit(c, InitializeSucceeds(Here(c)))
  /\ UNCHANGED abandoned

\* executePhaseModules of a phase without modules returns
PhaseModulesReturn(c) ==
  /\ calls[c].pc = "phaseAwait"
  /\ Commit(c, ModulesReturned(Here(c), c))
  /\ UNCHANGED abandoned

\* module.execute resolves before the timer fires
ExecuteResolves(c) ==
  /\ calls[c].pc = "race"
  /\ Commit(c, AttemptSucceeded(Here(c), c))
  /\ UNCHANGED abandoned

\* module.execute throws or rejects before the timer fires
ExecuteRejects(c) ==
  /\ calls[c].pc = "race"
  /\ Commit(c, AttemptFailed(Here(c), c, "moduleFailed"))
  /\ UNCHANGED abandoned

\* (variant: the race has no timer)
TimeoutNeverFires(c) ==
  /\ FALSE
  /\ UNCHANGED vars

\* the timer fires first: the attempt is abandoned, not cancelled
TimeoutFires(c) ==
  /\ calls[c].pc = "race"
  /\ Commit(c, AttemptFailed(Here(c), c, "moduleFailed"))
  /\ abandoned' = abandoned \cup {CurrentModule(c).id}

\* the retry delay has passed: the next pass of executeModule's loop
RetryDelayElapsed(c) ==
  /\ calls[c].pc = "retryDelay"
  /\ Commit(c, BeginAttempt(Here(c), c))
  /\ UNCHANGED abandoned

\* the abandoned module.execute invocations of a module come to their end
AbandonedSettles(m) ==
  /\ m \in abandoned
  /\ abandoned' = abandoned \ {m}
  /\ UNCHANGED <<state, currentPhase, modules, observers, listeners, notified,
                 pending, eventHistory, eventCounter, stats, phaseStats, config,
                 context, calls, issued, returned>>

\* a synchronous public method changed the engine fields to e
CommitSync(e, kind) ==
  /\ OpsIssued < MaxOps
  /\ issued[kind] < (CASE kind = "control" -> MaxControl
                       [] kind = "modules" -> MaxModules
                       [] kind = "observerOps" -> MaxObserverOps
                       [] kind = "listenerOps" -> MaxListenerOps)
  /\ issued' = [issued EXCEPT ![kind] = @ + 1]
  /\ state' = e.state
  /\ currentPhase' = e.currentPhase
  /\ eventHistory' = e.eventHistory
  /\ eventCounter' = e.eventCounter
  /\ stats' = e.stats
  /\ phaseStats' = e.phaseStats
  /\ context' = e.context
  /\ listeners' = e.listeners
  /\ notified' = e.notified
  /\ pending' = e.pending
  /\ UNCHANGED <<config, calls, abandoned, returned>>

PhaseOrInit(e) == IF e.currentPhase # 0 THEN e.currentPhase ELSE INITIALIZATION

\* (variant: an engine that is preparing can be paused, too)
pausedAlsoWhilePreparing(e) ==
  IF e.state \in {"RUNNING", "PREPARING"}
  THEN logEvent([e EXCEPT !.state = "PAUSED"], PhaseOrInit(e),
                "lifecycle_paused", "INFO")
  ELSE e

\* the body of pause()
paused(e) ==
  IF e.state = "RUNNING"
  THEN logEvent([e EXCEPT !.state = "PAUSED"], PhaseOrInit(e),
                "lifecycle_paused", "INFO")
  ELSE e

\* (variant: a stopped engine is resumed, too)
resumedAlsoWhenStopped(e) ==
  IF e.state \in {"PAUSED", "STOPPED"}
  THEN logEvent([e EXCEPT !.state = "RUNNING"], PhaseOrInit(e),
                "lifecycle_resumed", "INFO")
  ELSE e

\* the body of resume()
resumed(e) ==
  IF e.state = "PAUSED"
  THEN logEvent([e EXCEPT !.state = "RUNNING"], PhaseOrInit(e),
                "lifecycle_resumed", "INFO")
  ELSE e

\* (variant: the event is logged whatever the state was)
stoppedLogsAlways(e) ==
  logEvent([e EXCEPT !.state = "STOPPED"], PhaseOrInit(e),
           "lifecycle_stopped", "INFO")

\* the body of stop()
stopped(e) ==
  IF e.state # "STOPPED"
  THEN logEvent([e EXCEPT !.state = "STOPPED"], PhaseOrInit(e),
                "lifecycle_stopped", "INFO")
  ELSE e

pause ==
  /\ CommitSync(paused(Eng), "control")
  /\ UNCHANGED <<modules, observers>>

resume ==
  /\ CommitSync(resumed(Eng), "control")
  /\ UNCHANGED <<modules, observers>>

stop ==
  /\ CommitSync(stopped(Eng), "control")
  /\ UNCHANGED <<modules, observers>>

\* the embedding application configures the engine (modules, observers)
\* before it issues the first initialize() or start()
SetupTime == \A c \in Calls : calls[c].pc = "idle"

\* (variant: only a missing module is rejected)
InvalidModuleOnlyNull(m) == ModuleObjects[m].isNull

\* the test of registerModule:
\* `!module || typeof module.initialize !== 'function'`
InvalidModule(m) == ModuleObjects[m].isNull \/ ~ModuleObjects[m].hasInitialize

\* registerModule(phase, module).  A malformed module makes the call throw
\* before anything is written.  A well-formed module has the phase it is
\* registered to as its phase field; its id is new to the engine (the phase
\* and the position the module takes in that phase's list).  The module is
\* a freshly constructed one (`isInitialized = false`, which only the
\* module's own initialize() sets to true); the engine stores the object as
\* it is and never writes to it.
registerModule(phase, m) ==
  /\ SetupTime
  /\ IF InvalidModule(m)
     THEN /\ modules' = modules
          /\ CommitSync(Eng, "modules")
     ELSE /\ modules' = [modules EXCEPT ![phase] =
                           Append(@, [id |-> <<phase, Len(@) + 1>>,
                                      phase |-> phase,
                                      isInitialized |-> FALSE])]
          /\ CommitSync(logEvent(Eng, phase, "module_registered", "INFO"),
                        "modules")
  /\ UNCHANGED observers

addObserver(o) ==
  /\ SetupTime
  /\ observers' = observers \cup {o}
  /\ CommitSync(logEvent(Eng, PhaseOrInit(Eng), "observer_added", "DEBUG"),
                "observerOps")
  /\ UNCHANGED modules

removeObserver(o) ==
  /\ SetupTime
  /\ observers' = observers \ {o}
  /\ CommitSync(Eng, "observerOps")
  /\ UNCHANGED modules

\* addEventListener(listener): the listener is added, then the event is
\* logged (and delivered to the new listener as well)
addEventListener(l) ==
  /\ CommitSync(logEvent([Eng EXCEPT !.listeners = @ \cup {l}], PhaseOrInit(Eng),
                         "listener_added", "DEBUG"), "listenerOps")
  /\ UNCHANGED <<modules, observers>>

\* removeEventListener(listener): `return this.listeners.delete(listener)`
removeEventListener(l) ==
  /\ CommitSync([Eng EXCEPT !.listeners = @ \ {l}], "listenerOps")
  /\ UNCHANGED <<modules, observers>>

\* the module whose execute the call awaits works on the context it was
\* given, the one executePhaseModules got from getContext(): it sets a key
\* (the value written is the module's phase), deletes a key, or clears the
\* map
ContextOp(c, ctx) ==
  /\ calls[c].pc = "race"
  /\ context.exists
  /\ context' = ctx
  /\ UNCHANGED <<state, currentPhase, modules, observers, listeners, notified,
                 pending, eventHistory, eventCounter, stats, phaseStats, config,
                 calls, abandoned, issued, returned>>

ModuleSets(c, key) == ContextOp(c, set(context, key, CurrentModule(c).phase))

ModuleDeletes(c, key) == ContextOp(c, delete(context, key))

ModuleClears(c) == ContextOp(c, clear(context))

\* the promises an async listener returned settle
ListenerSettles(l) ==
  /\ l \in pending
  /\ pending' = pending \ {l}
  /\ UNCHANGED <<state, currentPhase, modules, observers, listeners, notified,
                 eventHistory, eventCounter, stats, phaseStats, config, context,
                 calls, abandoned, issued, returned>>

\* Array.prototype.slice(start) with one argument: a negative start counts
\* from the end of the array, and the result runs to the end
slice(a, start) ==
  LET n == Len(a)
      from == IF start < 0
              THEN (IF n + start > 0 THEN n + start ELSE 0)
              ELSE (IF start < n THEN start ELSE n)
  IN SubSeq(a, from + 1, n)

\* getEventHistory(limit?): args is the list of the arguments given, <<>>
\* for a call without a limit (`limit === undefined`)
getEventHistory(e, args) ==
  IF args = <<>> THEN e.eventHistory ELSE slice(e.eventHistory, 0 - args[1])

\* the argument lists offered to getEventHistory: none, and the limits from
\* 0 to one more than the history can hold
Limits == {<<>>} \cup {<<n>> : n \in 0..(HistorySizeBound + 1)}

\* nothing has been returned yet
NoReturn == [called |-> FALSE, args |-> <<>>, events |-> <<>>]

\* getEventHistory(limit?) is called
getEventHistoryCalled(args) ==
  /\ OpsIssued < MaxOps
  /\ issued.queries < MaxQueries
  /\ issued' = [issued EXCEPT !.queries = @ + 1]
  /\ returned' = [called |-> TRUE, args |-> args,
                   events |-> getEventHistory(Eng, args)]
  /\ UNCHANGED <<state, currentPhase, modules, observers, listeners, notified,
                 pending, eventHistory, eventCounter, stats, phaseStats, config,
                 context, calls, abandoned>>

\* ------------------------------------------------------ specification
\* the engine right after `new LifecycleEngine(config)`, with the
\* saveHistory option taken from saveHistoryOptions
EngineCreated(saveHistoryOptions) ==
  /\ state = "UNINITIALIZED"
  /\ currentPhase = 0
  /\ modules = [p \in LifecyclePhase |-> <<>>]
  /\ observers = {}
  /\ listeners = {}
  /\ notified = {}
  /\ pending = {}
  /\ config \in [continueOnError : BOOLEAN, maxRetries : {0, MaxRetriesBound},
                 saveHistory : saveHistoryOptions,
                 maxHistorySize : {HistorySizeBound}]
  /\ eventCounter = 1
  /\ eventHistory = PushHistory(<<>>, [id |-> 1, phase |-> INITIALIZATION,
                                       type |-> "engine_created", level |-> "INFO"])
  /\ stats = [totalExecutions |-> 0, successfulExecutions |-> 0,
              failedExecutions |-> 0]
  /\ phaseStats = [p \in LifecyclePhase |->
                     [executionCount |-> 0, successCount |-> 0, failureCount |-> 0]]
  /\ context = NoContext
  /\ calls = [c \in Calls |-> IdleFrame]
  /\ abandoned = {}
  /\ issued = [control |-> 0, modules |-> 0, observerOps |-> 0,
               listenerOps |-> 0, queries |-> 0]
  /\ returned = NoReturn

\* the engines the sessions start from keep a history (saveHistory is true
\* by default)
Init == EngineCreated({TRUE})

Next ==
  \/ \E c \in Calls : Initialize(c)
  \/ \E c \in Calls : Start(c)
  \/ \E c \in Calls : StartAfterInitialize(c)
  \/ \E c \in Calls, ok \in BOOLEAN : ObserversSettle(c, ok)
  \/ \E c \in Calls : PhaseModulesReturn(c)
  \/ \E c \in Calls : ExecuteResolves(c)
  \/ \E c \in Calls : ExecuteRejects(c)
  \/ \E c \in Calls : TimeoutFires(c)
  \/ \E c \in Calls : RetryDelayElapsed(c)
  \/ \E m \in abandoned : AbandonedSettles(m)
  \/ pause
  \/ resume
  \/ stop
  \/ \E p \in RegPhases, m \in DOMAIN ModuleObjects : registerModule(p, m)
  \/ \E o \in Observers : addObserver(o)
  \/ \E o \in Observers : removeObserver(o)

Spec == Init /\ [][Next]_vars

\* notifyObservers with no observer defining the hook: no promise is
\* awaited but the (already resolved) one of the async function itself
HooklessObserversSettle(c) == ~calls[c].hooked /\ ObserversSettle(c, TRUE)

\* the step of frame c that the event loop takes by itself: a timer that
\* was set fires (setTimeout of the race and of the retry delay), or the
\* continuation of an await on a settled promise runs
EventLoopStep(c) ==
  \/ TimeoutFires(c)
  \/ RetryDelayElapsed(c)
  \/ PhaseModulesReturn(c)
  \/ StartAfterInitialize(c)
  \/ HooklessObserversSettle(c)

\* the event loop keeps running; nothing makes module.execute or an
\* observer's hook settle
EventLoop == \A c \in Calls : WF_vars(EventLoopStep(c))

\* the sessions whose termination is checked: those of at most MaxLiveOps
\* public calls
Short(A) == A /\ OpsIssued' <= MaxLiveOps

LiveNext ==
  \/ \E c \in Calls : Short(Initialize(c))
  \/ \E c \in Calls : Short(Start(c))
  \/ \E c \in Calls : StartAfterInitialize(c)
  \/ \E c \in Calls, ok \in BOOLEAN : ObserversSettle(c, ok)
  \/ \E c \in Calls : PhaseModulesReturn(c)
  \/ \E c \in Calls : ExecuteResolves(c)
  \/ \E c \in Calls : ExecuteRejects(c)
  \/ \E c \in Calls : TimeoutFires(c)
  \/ \E c \in Calls : RetryDelayElapsed(c)
  \/ \E m \in abandoned : AbandonedSettles(m)
  \/ Short(pause)
  \/ Short(resume)
  \/ Short(stop)
  \/ \E p \in RegPhases, m \in DOMAIN ModuleObjects : Short(registerModule(p, m))
  \/ \E o \in Observers : Short(addObserver(o))
  \/ \E o \in Observers : Short(removeObserver(o))

LiveSpec == Init /\ [][LiveNext]_vars /\ EventLoop

\* the sessions in which listeners are registered and removed, of at most
\* MaxLiveOps public calls
ListenerNext ==
  \/ \E c \in Calls : Short(Initialize(c))
  \/ \E c \in Calls : Short(Start(c))
  \/ \E c \in Calls : StartAfterInitialize(c)
  \/ \E c \in Calls, ok \in BOOLEAN : ObserversSettle(c, ok)
  \/ \E c \in Calls : PhaseModulesReturn(c)
  \/ \E c \in Calls : ExecuteResolves(c)
  \/ \E c \in Calls : ExecuteRejects(c)
  \/ \E c \in Calls : TimeoutFires(c)
  \/ \E c \in Calls : RetryDelayElapsed(c)
  \/ \E m \in abandoned : AbandonedSettles(m)
  \/ Short(pause)
  \/ Short(resume)
  \/ Short(stop)
  \/ \E p \in RegPhases, m \in DOMAIN ModuleObjects : Short(registerModule(p, m))
  \/ \E o \in Observers : Short(addObserver(o))
  \/ \E o \in Observers : Short(removeObserver(o))
  \/ \E l \in Listeners : Short(addEventListener(l))
  \/ \E l \in Listeners : Short(removeEventListener(l))
  \/ \E l \in pending : ListenerSettles(l)

ListenerSpec == Init /\ [][ListenerNext]_vars

\* the sessions in which the modules use the context's data map, of at most
\* MaxLiveOps public calls
ContextNext ==
  \/ \E c \in Calls : Short(Initialize(c))
  \/ \E c \in Calls : Short(Start(c))
  \/ \E c \in Calls : StartAfterInitialize(c)
  \/ \E c \in Calls, ok \in BOOLEAN : ObserversSettle(c, ok)
  \/ \E c \in Calls : PhaseModulesReturn(c)
  \/ \E c \in Calls : ExecuteResolves(c)
  \/ \E c \in Calls : ExecuteRejects(c)
  \/ \E c \in Calls : TimeoutFires(c)
  \/ \E c \in Calls : RetryDelayElapsed(c)
  \/ \E m \in abandoned : AbandonedSettles(m)
  \/ Short(pause)
  \/ Short(resume)
  \/ Short(stop)
  \/ \E p \in RegPhases, m \in DOMAIN ModuleObjects : Short(registerModule(p, m))
  \/ \E o \in Observers : Short(addObserver(o))
  \/ \E o \in Observers : Short(removeObserver(o))
  \/ \E c \in Calls, k \in Keys : ModuleSets(c, k)
  \/ \E c \in Calls, k \in Keys : ModuleDeletes(c, k)
  \/ \E c \in Calls : ModuleClears(c)

ContextSpec == Init /\ [][ContextNext]_vars

\* the sessions of at most MaxHistoryOps public calls
Brief(A) == A /\ OpsIssued' <= MaxHistoryOps

\* the sessions of an engine constructed with or without saveHistory, with
\* listeners and with getEventHistory() calls, of at most MaxHistoryOps
\* public calls
HistoryInit == EngineCreated(BOOLEAN)

HistoryNext ==
  \/ \E c \in Calls : Brief(Initialize(c))
  \/ \E c \in Calls : Brief(Start(c))
  \/ \E c \in Calls : StartAfterInitialize(c)
  \/ \E c \in Calls, ok \in BOOLEAN : ObserversSettle(c, ok)
  \/ \E c \in Calls : PhaseModulesReturn(c)
  \/ \E c \in Calls : ExecuteResolves(c)
  \/ \E c \in Calls : ExecuteRejects(c)
  \/ \E c \in Calls : TimeoutFires(c)
  \/ \E c \in Calls : RetryDelayElapsed(c)
  \/ \E m \in abandoned : AbandonedSettles(m)
  \/ Brief(pause)
  \/ Brief(resume)
  \/ Brief(stop)
  \/ \E p \in RegPhases, m \in DOMAIN ModuleObjects : Brief(registerModule(p, m))
  \/ \E l \in Listeners : Brief(addEventListener(l))
  \/ \E l \in Listeners : Brief(removeEventListener(l))
  \/ \E l \in pending : ListenerSettles(l)
  \/ \E args \in Limits : Brief(getEventHistoryCalled(args))

HistorySpec == HistoryInit /\ [][HistoryNext]_vars

\* the fields of the engine right after `new LifecycleEngine(config)`
CreatedEngine ==
  [state |-> "UNINITIALIZED", currentPhase |-> 0,
   eventHistory |-> PushHistory(<<>>, [id |-> 1, phase |-> INITIALIZATION,
                                       type |-> "engine_created",
                                       level |-> "INFO"]),
   eventCounter |-> 1,
   stats |-> [totalExecutions |-> 0, successfulExecutions |-> 0,
              failedExecutions |-> 0],
   phaseStats |-> [p \in LifecyclePhase |->
                     [executionCount |-> 0, successCount |-> 0,
                      failureCount |-> 0]],
   context |-> NoContext, listeners |-> {}, notified |-> {}, pending |-> {}]

\* the engine after `new LifecycleEngine(config)` and addObserver(o), o
\* being an observer that defines the initialization hooks: the sessions of
\* an application that has registered its observer beforehand
ObservedInit ==
  /\ config \in [continueOnError : BOOLEAN, maxRetries : {0, MaxRetriesBound},
                 saveHistory : {TRUE}, maxHistorySize : {HistorySizeBound}]
  /\ observers = {"full"}
  /\ LET e == logEvent(CreatedEngine, PhaseOrInit(CreatedEngine),
                       "observer_added", "DEBUG")
     IN /\ state = e.state
        /\ currentPhase = e.currentPhase
        /\ eventHistory = e.eventHistory
        /\ eventCounter = e.eventCounter
        /\ stats = e.stats
        /\ phaseStats = e.phaseStats
        /\ context = e.context
        /\ listeners = e.listeners
        /\ notified = e.notified
        /\ pending = e.pending
  /\ modules = [p \in LifecyclePhase |-> <<>>]
  /\ calls = [c \in Calls |-> IdleFrame]
  /\ abandoned = {}
  /\ issued = [control |-> 0, modules |-> 0, observerOps |-> 0,
               listenerOps |-> 0, queries |-> 0]
  /\ returned = NoReturn

ObservedSpec == ObservedInit /\ [][Next]_vars


\* ------------------------------------------------------------ properties
IsPrefix(s, t) == Len(s) <= Len(t) /\ SubSeq(t, 1, Len(s)) = s

Last(s) == s[Len(s)]

\* the order of the five phases as the specification states it
FixedOrder == <<PREPARATION, VALIDATION, EXECUTION, MONITORING, CLEANUP>>

\* the frame is inside one of the five phases of start()
InPhase(f) == f.pc \in {"race", "retryDelay", "phaseAwait"} /\ ~f.inInit

\* C1: in every start() call the five phases are entered in the order
\* Preparation, Validation, Execution, Monitoring, Cleanup; a phase is
\* entered only when the previous one has finished, no phase is entered
\* twice, and a call that returns has gone through all five.
C1_PhaseOrder ==
  \A c \in Calls :
    LET f == calls[c]
    IN /\ IsPrefix(f.entered, FixedOrder)
       /\ IsPrefix(f.finished, f.entered)
       /\ Len(f.entered) <= Len(f.finished) + 1
       /\ InPhase(f) =>
            /\ Len(f.entered) = Len(f.finished) + 1
            /\ Last(f.entered) = f.phase
       /\ (f.pc = "done" /\ f.op = "start") => f.finished = f.entered
       /\ (f.op = "start" /\ f.result = "returned") => f.finished = FixedOrder

\* a start() that swallowed a module failure has returned after all five
\* phases
C1_Witness ==
  \E c \in Calls :
    /\ calls[c].op = "start"
    /\ calls[c].result = "returned"
    /\ calls[c].finished = FixedOrder
    /\ \E k \in 1..Len(calls[c].settled) : ~calls[c].settled[k].ok

\* the step of frame c in which a module of one of the five phases
\* exhausts its retry budget
ExhaustsInPhase(c) ==
  /\ calls[c].pc = "race"
  /\ ~calls[c].inInit
  /\ Len(calls'[c].settled) = Len(calls[c].settled) + 1
  /\ ~Last(calls'[c].settled).ok

\* C2: with continueOnError=false, when a module of phase P exhausts its
\* retry budget during start(), the call ends there and re-raises, no
\* further module is run by that call, the state becomes Error, and
\* totalExecutions and failedExecutions each grow by exactly one.
C2_AbortOnFailure ==
  [][\A c \in Calls :
       /\ (~config.continueOnError /\ ExhaustsInPhase(c)) =>
            /\ calls'[c].pc = "done"
            /\ calls'[c].result = "threw"
            /\ calls'[c].error = "moduleFailed"
            /\ calls'[c].ran = calls[c].ran
            /\ Last(calls[c].ran) = <<calls[c].phase, calls[c].idx>>
            /\ \A k \in 1..Len(calls[c].ran) :
                 calls[c].ran[k][1] <= calls[c].phase
            /\ state' = "ERROR"
            /\ stats'.totalExecutions = stats.totalExecutions + 1
            /\ stats'.failedExecutions = stats.failedExecutions + 1
            /\ stats'.successfulExecutions = stats.successfulExecutions
       /\ calls[c].pc = "done" => calls'[c] = calls[c]]_vars

\* a Validation module failed for good in a start() of an engine that has
\* an Execution module: the call has ended without running it
C2_Witness ==
  /\ ~config.continueOnError
  /\ modules[EXECUTION] # <<>>
  /\ state = "ERROR"
  /\ \E c \in Calls :
       /\ calls[c].op = "start"
       /\ calls[c].result = "threw"
       /\ calls[c].settled # <<>>
       /\ Last(calls[c].settled).phase = VALIDATION
       /\ ~Last(calls[c].settled).ok
       /\ \A k \in 1..Len(calls[c].ran) : calls[c].ran[k][1] # EXECUTION


\* the pairs <<phase, index>> of the modules a call has run
Ran(f) == {f.ran[k] : k \in 1..Len(f.ran)}

\* C3: with continueOnError=true, when a module of one of the five phases
\* exhausts its retry budget, the failure is recorded, every later phase is
\* still entered and every module of it is run, start() returns without
\* raising, and the state is Stopped when no other call interfered.
C3_ContinueOnError ==
  \A c \in Calls :
    LET f == calls[c]
    IN \A k \in 1..Len(f.settled) :
         (/\ config.continueOnError
          /\ f.op = "start"
          /\ f.pc = "done"
          /\ ~f.settled[k].ok
          /\ f.settled[k].phase # INITIALIZATION) =>
            /\ f.result = "returned"
            /\ f.finished = FixedOrder
            /\ \E n \in 1..Len(context.errors) :
                 context.errors[n].phase = f.settled[k].phase
            /\ \A p \in LifecyclePhase :
                 p > f.settled[k].phase =>
                   \A i \in 1..Len(modules[p]) : <<p, i>> \in Ran(f)
            /\ (issued.control = 0 /\ \A d \in Calls \ {c} : calls[d].pc = "idle")
                 => state = "STOPPED"

\* C4: a module that fails on every attempt is invoked exactly
\* maxRetries + 1 times before the failure reaches the phase, and no module
\* is invoked more often than that in one phase execution.
C4_RetryBound ==
  \A c \in Calls :
    LET f == calls[c]
    IN /\ f.invocations <= config.maxRetries + 1
       /\ f.pc = "retryDelay" => f.invocations <= config.maxRetries
       /\ \A k \in 1..Len(f.settled) :
            /\ f.settled[k].invocations <= config.maxRetries + 1
            /\ ~f.settled[k].ok => f.settled[k].invocations = config.maxRetries + 1

\* a module has failed for good after a retry
C4_Witness ==
  \E c \in Calls :
    \E k \in 1..Len(calls[c].settled) :
      /\ ~calls[c].settled[k].ok
      /\ calls[c].settled[k].invocations = config.maxRetries + 1
      /\ config.maxRetries >= 1

\* C5: once an attempt of a module has completed before its timer fired,
\* the executor has returned: the call issues no further attempt of that
\* module in that phase execution, whatever retry budget is left.
C5_NoAttemptAfterSuccess ==
  \A c \in Calls :
    LET f == calls[c]
    IN /\ f.pc \in {"race", "retryDelay"} =>
            \A k \in 1..Len(f.settled) :
              ~(f.settled[k].phase = f.phase /\ f.settled[k].idx = f.idx)
       /\ \A j, k \in 1..Len(f.ran) : f.ran[j] = f.ran[k] => j = k
       /\ \A j, k \in 1..Len(f.settled) :
            (f.settled[j].phase = f.settled[k].phase
               /\ f.settled[j].idx = f.settled[k].idx) => j = k

\* a module succeeded at its first attempt with retry budget left, and the
\* call has gone on
C5_Witness ==
  \E c \in Calls :
    \E k \in 1..Len(calls[c].settled) :
      /\ calls[c].settled[k].ok
      /\ calls[c].settled[k].invocations = 1
      /\ config.maxRetries >= 1
      /\ calls[c].pc = "done"

\* the fields of the engine a rejected call must leave alone
EngineUnchanged ==
  UNCHANGED <<state, currentPhase, modules, observers, listeners, notified,
              pending, eventHistory, eventCounter, stats, phaseStats, config,
              context, abandoned>>

\* C6: start() called while the state is Preparing, Running or Error fails
\* with the invalid-state error, runs no phase and no module and leaves the
\* state, the current phase and the statistics unchanged.
C6_StartRejected ==
  [][\A c \in Calls :
       (/\ calls[c].pc = "idle"
        /\ calls'[c].op = "start"
        /\ state \in {"PREPARING", "RUNNING", "ERROR"}) =>
          /\ calls'[c].pc = "done"
          /\ calls'[c].result = "threw"
          /\ calls'[c].error = "invalidState"
          /\ calls'[c].entered = <<>>
          /\ calls'[c].ran = <<>>
          /\ ~calls'[c].initRan
          /\ EngineUnchanged]_vars

\* start() was rejected while another start() was running: the engine has
\* never been initialized (it was stopped first), so it was never Preparing,
\* and no run has failed, so it was never in Error
C6_Witness ==
  \E c, d \in Calls :
    /\ calls[c].op = "start"
    /\ calls[c].error = "invalidState"
    /\ calls[d].op = "start"
    /\ InPhase(calls[d])
    /\ state = "RUNNING"
    /\ stats.failedExecutions = 0
    /\ \A e \in Calls : ~calls[e].initRan /\ ~calls[e].inInit

\* the step in which the initialize() body of frame c comes to its end
InitializeEnds(c) ==
  /\ calls[c].inInit
  /\ calls[c].pc # "done"
  /\ calls'[c].pc \in {"done", "afterInit"}

\* every initialization-phase module was run by the frame and succeeded
AllInitModulesSucceeded(f) ==
  /\ f.initRan
  /\ Len(f.settled) = Len(modules[INITIALIZATION])
  /\ \A k \in 1..Len(f.settled) : f.settled[k].ok

\* C7 as stated: when the initialize() body ends and every
\* initialization-phase module has succeeded, the state becomes Stopped.
C7_StoppedIfModulesSucceed ==
  [][\A c \in Calls :
       (InitializeEnds(c) /\ AllInitModulesSucceeded(calls'[c]))
         => state' = "STOPPED"]_vars

\* C7 (amended): initialize() in state Uninitialized moves the state to
\* Preparing before any initialization module runs; the state is Preparing
\* while the initialization runs and no pause/resume/stop is issued; at the
\* end the state becomes Stopped if every initialization module succeeded
\* and no observer initialization hook failed, and Error, with the failure
\* re-raised, if a module exhausted its retries or such a hook failed.
C7_Initialize ==
  /\ [](\A c \in Calls :
          (calls[c].inInit /\ calls[c].pc # "done" /\ issued.control = 0)
            => state = "PREPARING")
  /\ [][\A c \in Calls :
          LET f == calls[c]
              g == calls'[c]
          IN /\ (f.pc = "idle" /\ g.pc # "idle" /\ state = "UNINITIALIZED") =>
                  /\ state' = "PREPARING"
                  /\ g.inInit /\ ~g.initRan /\ g.ran = <<>>
             /\ InitializeEnds(c) =>
                  IF g.error = "none"
                  THEN /\ state' = "STOPPED"
                       /\ f.pc = "obsComplete"
                       /\ AllInitModulesSucceeded(g)
                       /\ g.op = "initialize" => g.result = "returned"
                  ELSE /\ state' = "ERROR"
                       /\ g.result = "threw"
                       /\ \/ /\ g.error = "moduleFailed"
                             /\ f.pc = "race"
                             /\ ~Last(g.settled).ok
                          \/ /\ g.error = "observerFailed"
                             /\ f.hooked
             /\ (f.inInit /\ f.pc = "race"
                   /\ Len(g.settled) > Len(f.settled) /\ ~Last(g.settled).ok) =>
                  /\ g.pc = "done"
                  /\ g.result = "threw"
                  /\ state' = "ERROR"]_vars

\* initialize() has returned after running an initialization module
C7_Witness ==
  \E c \in Calls :
    /\ calls[c].op = "initialize"
    /\ calls[c].result = "returned"
    /\ calls[c].settled # <<>>
    /\ state = "STOPPED"

\* C8: initialize() called in a state other than Uninitialized fails, runs
\* no initialization module, emits no event and changes nothing; the
\* initialization phase is run by at most one call.
C8_InitializeOnce ==
  /\ [](Cardinality({c \in Calls : calls[c].inInit \/ calls[c].initRan}) <= 1)
  /\ [][\A c \in Calls :
          (/\ calls[c].pc = "idle"
           /\ calls'[c].op = "initialize"
           /\ state # "UNINITIALIZED") =>
             /\ calls'[c].pc = "done"
             /\ calls'[c].result = "threw"
             /\ calls'[c].error = "alreadyInitialized"
             /\ calls'[c].ran = <<>>
             /\ ~calls'[c].initRan
             /\ EngineUnchanged]_vars

\* a second initialize() was rejected after a first one had run a module
C8_Witness ==
  \E c, d \in Calls :
    /\ calls[c].error = "alreadyInitialized"
    /\ calls[d].initRan
    /\ calls[d].settled # <<>>
    /\ calls[d].pc = "done"

\* C9: whenever a start() has entered the Preparation phase, the
\* initialization phase of the engine has been executed by some call.
C9_InitializedBeforePreparation ==
  \A c \in Calls :
    calls[c].entered # <<>> => \E d \in Calls : calls[d].initRan

\* the step in which frame c calls execute of the next module of its phase
BeginsModule(c) == Len(calls'[c].ran) = Len(calls[c].ran) + 1

\* what the frame has settled in the phase it is in
SettledInPhase(f) == SelectSeq(f.settled, LAMBDA s : s.phase = f.phase)

\* C10 as stated: when B's execute begins, no execute invocation of a
\* module registered before B in that phase is still going on.
C10_AllAttemptsCompleted ==
  [][\A c \in Calls :
       BeginsModule(c) =>
         \A i \in 1..(calls'[c].idx - 1) :
           modules[calls'[c].phase][i].id \notin abandoned']_vars

\* C10 (amended): within one phase execution B's execute begins only after
\* the executor has returned successfully for every module registered
\* before B, in registration order: each of their attempts has completed or
\* has been abandoned by its timeout.
C10_ModuleOrder ==
  [][\A c \in Calls :
       BeginsModule(c) =>
         LET g == calls'[c]
             before == SettledInPhase(g)
         IN /\ g.pc = "race"
            /\ g.invocations = 1
            /\ Len(before) = g.idx - 1
            /\ \A i \in 1..Len(before) : before[i].idx = i /\ before[i].ok]_vars

\* B is executing while a timed-out attempt of A, whose retry succeeded, is
\* still going on
C10_Witness ==
  \E c \in Calls :
    LET f == calls[c]
    IN /\ f.pc = "race"
       /\ f.idx = 2
       /\ modules[f.phase][1].id \in abandoned
       /\ \E k \in 1..Len(f.settled) :
            /\ f.settled[k].phase = f.phase
            /\ f.settled[k].idx = 1
            /\ f.settled[k].ok
            /\ f.settled[k].invocations = 2

\* the start() frame has left phase p behind (for the initialization phase:
\* the executePhaseModules call of the nested initialize() is over)
LeftPhase(f, p) ==
  IF p = INITIALIZATION
  THEN f.initRan /\ ~(f.inInit /\ f.pc \in {"race", "retryDelay", "phaseAwait"})
  ELSE \E k \in 1..Len(f.finished) : f.finished[k] = p

\* a module registered before the i-th one in phase p exhausted its retries
EarlierModuleFailed(f, p, i) ==
  \E k \in 1..Len(f.settled) :
    f.settled[k].phase = p /\ f.settled[k].idx < i /\ ~f.settled[k].ok

C12_HistoryBound ==
  config.saveHistory =>
    /\ Len(eventHistory) <= config.maxHistorySize
    /\ Len(eventHistory) =
         (IF eventCounter >= config.maxHistorySize
          THEN config.maxHistorySize ELSE eventCounter)
    /\ \A i \in 1..Len(eventHistory) :
         eventHistory[i].id = eventCounter - Len(eventHistory) + i

\* two events more than the history can hold have been emitted
C12_Witness ==
  /\ config.saveHistory
  /\ eventCounter >= config.maxHistorySize + 2
  /\ Len(eventHistory) = config.maxHistorySize
  /\ eventHistory[1].id = eventCounter - config.maxHistorySize + 1

\* the frame is inside the module executor
InExecutor(f) == f.pc \in {"race", "retryDelay"}

\* the step of frame c in which the timer of its pending attempt fires
TimesOut(c) ==
  /\ calls[c].pc = "race"
  /\ CurrentModule(c).id \notin abandoned
  /\ CurrentModule(c).id \in abandoned'
  /\ calls'[c] # calls[c]

\* C13: a module whose execute never resolves does not block the engine.
\* The attempt whose timer fires is treated as failed (a retry or, with the
\* budget exhausted, the reported failure); a call inside the module
\* executor eventually terminates, whatever the modules do (only an
\* observer's initialization hook that never settles can hold it); and a
\* run that terminates leaves the state Stopped or Error.
C13_TimeoutUnblocks ==
  /\ \A c \in Calls :
       InExecutor(calls[c]) ~>
         \/ calls[c].pc = "done"
         \/ calls[c].pc = "obsComplete" /\ calls[c].hooked
  /\ [][\A c \in Calls :
          /\ TimesOut(c) =>
               IF calls[c].retries < config.maxRetries
                  THEN /\ calls'[c].pc = "retryDelay"
                       /\ calls'[c].retries = calls[c].retries + 1
                  ELSE /\ Len(calls'[c].settled) = Len(calls[c].settled) + 1
                       /\ ~Last(calls'[c].settled).ok
                       /\ Last(calls'[c].settled).invocations
                            = config.maxRetries + 1
          /\ (calls[c].pc \in {"race", "phaseAwait", "obsStart", "obsComplete"}
                /\ calls'[c].pc = "done") =>
               state' \in {"STOPPED", "ERROR"}]_vars

\* the only attempt of a module timed out and is still going on; the call
\* has terminated with the failure
C13_Witness ==
  \E c \in Calls :
    /\ config.maxRetries = 0
    /\ calls[c].pc = "done"
    /\ calls[c].error = "moduleFailed"
    /\ CurrentModule(c).id \in abandoned
    /\ \A d \in Calls \ {c} : calls[d].pc = "idle"
    /\ state = "ERROR"

\* the events of the log with the given type
OfType(log, type) == {i \in 1..Len(log) : log[i].type = type}

\* the log of a module that succeeded at its (k+1)-th attempt: exactly k
\* Warn-level events, all of them retry events, then one completion event,
\* of the given level, and no event of a higher level
RetriedThenCompleted(s, level) ==
  /\ {i \in 1..Len(s.log) : s.log[i].level = "WARN"}
       = OfType(s.log, "module_execute_retry")
  /\ Cardinality(OfType(s.log, "module_execute_retry")) = s.invocations - 1
  /\ OfType(s.log, "module_execute_complete") = {Len(s.log)}
  /\ Last(s.log).level = level
  /\ \A i \in 1..Len(s.log) : s.log[i].level \notin {"ERROR", "CRITICAL"}

ModuleSucceeds(c) ==
  /\ Len(calls'[c].settled) = Len(calls[c].settled) + 1
  /\ Last(calls'[c].settled).ok

NothingChanges == EngineUnchanged /\ UNCHANGED calls

\* the step emits exactly one event, of the given level, and changes the
\* state to st and nothing else
OneEventAndState(level, st) ==
  /\ state' = st
  /\ eventCounter' = eventCounter + 1
  /\ Last(eventHistory').id = eventCounter'
  /\ Last(eventHistory').level = level
  /\ \A i \in 1..(Len(eventHistory') - 1) :
       \E j \in 1..Len(eventHistory) : eventHistory'[i] = eventHistory[j]
  /\ context' = IF context.exists
                THEN [context EXCEPT !.events = Append(@, eventCounter')]
                ELSE context
  /\ UNCHANGED <<currentPhase, modules, observers, listeners, stats, phaseStats, config,
                 calls, abandoned>>

\* C15: pause() called while the state is Running sets the state to Paused
\* and emits exactly one Info-level event; called in any other state it
\* changes nothing and emits no event.
C15_Pause ==
  [][pause => IF state = "RUNNING"
              THEN OneEventAndState("INFO", "PAUSED")
              ELSE NothingChanges]_vars

\* pause() was called during a run
C15_Witness ==
  /\ state = "PAUSED"
  /\ Last(eventHistory).type = "lifecycle_paused"
  /\ \E c \in Calls : calls[c].op = "start" /\ InPhase(calls[c])

\* C16: resume() called while the state is Paused sets the state to Running
\* and emits exactly one Info-level event; called in any other state it
\* changes nothing and emits no event.
C16_Resume ==
  [][resume => IF state = "PAUSED"
               THEN OneEventAndState("INFO", "RUNNING")
               ELSE NothingChanges]_vars

\* resume() was called on a paused engine
C16_Witness ==
  /\ state = "RUNNING"
  /\ Last(eventHistory).type = "lifecycle_resumed"

\* C17: stop() called in any state leaves the engine in Stopped, with one
\* Info-level event emitted; when the state is already Stopped it emits no
\* event and changes nothing, so that stop() after stop() gives the state
\* and the history of a single stop().
C17_StopIdempotent ==
  /\ [][stop => /\ state' = "STOPPED"
                /\ IF state = "STOPPED"
                   THEN NothingChanges
                   ELSE OneEventAndState("INFO", "STOPPED")]_vars
  /\ [](stopped(stopped(Eng)) = stopped(Eng))

\* stop() was called during a run, and the engine had never been stopped
\* before
C17_Witness ==
  /\ state = "STOPPED"
  /\ Last(eventHistory).type = "lifecycle_stopped"
  /\ \E c \in Calls : calls[c].pc \in {"race", "retryDelay"}

\* the step in which a module failure leaves initialize() or start(): the
\* phase abort has propagated to the engine
AbortPropagates(c) ==
  /\ calls[c].pc = "race"
  /\ calls'[c].pc = "done"
  /\ calls'[c].error = "moduleFailed"

\* C18: whenever a phase abort propagates to the engine, in initialize() as
\* well as in start(), the state becomes Error, the last event emitted is a
\* Critical-level one, and the failure is re-raised to the caller.
C18_CriticalOnAbort ==
  [][\A c \in Calls :
       AbortPropagates(c) =>
         /\ state' = "ERROR"
         /\ calls'[c].result = "threw"
         /\ Last(eventHistory').id = eventCounter'
         /\ Last(eventHistory').level = "CRITICAL"]_vars

\* the calls whose module.execute invocation is awaited (the invocations a
\* timeout has abandoned are not counted)
Executing == {c \in Calls : calls[c].pc = "race"}

\* the start() calls that are inside their loop over the phases
InPhaseLoop ==
  {c \in Calls : calls[c].op = "start" /\ calls[c].entered # <<>>
                   /\ calls[c].pc # "done"}

\* C19: whatever public calls are issued while a run is suspended and
\* whatever timers fire, at most one module.execute invocation is awaited at
\* any time and at most one start() phase loop is active on the engine.
C19_NoParallelExecution ==
  /\ Cardinality(Executing) <= 1
  /\ Cardinality(InPhaseLoop) <= 1

\* C20: with continueOnError=true, when a module A of one of the five
\* phases has exhausted its retry budget in a start() and the call has left
\* that phase, every module registered to the phase after A has been
\* executed by the call.
C20_ContinuesWithNextModule ==
  \A c \in Calls :
    LET f == calls[c]
    IN \A k \in 1..Len(f.settled) :
         (/\ config.continueOnError
          /\ f.op = "start"
          /\ ~f.settled[k].ok
          /\ f.settled[k].phase # INITIALIZATION
          /\ LeftPhase(f, f.settled[k].phase)) =>
            \A i \in (f.settled[k].idx + 1)..Len(modules[f.settled[k].phase]) :
              <<f.settled[k].phase, i>> \in Ran(f)

\* C21: every module whose execute the engine has invoked went through
\* setup (module.initialize, which raises the module's initialized flag)
\* before: the flag of an executed module is true.
C21_SetupBeforeExecute ==
  \A c \in Calls :
    \A m \in Ran(calls[c]) : modules[m[1]][m[2]].isInitialized

\* the number of times the call has invoked the method on observer o
HookCalls(f, o, method) ==
  Cardinality({k \in 1..Len(f.hooks) :
                 f.hooks[k].method = method /\ o \in f.hooks[k].on})

\* the executions of phase p that the call has completed successfully
Succeeded(f, p) ==
  /\ \E k \in 1..Len(f.finished) : f.finished[k] = p
  /\ \A k \in 1..Len(f.settled) : f.settled[k].phase = p => f.settled[k].ok

\* C22: for each of the five phases a start() has entered and each
\* registered observer that defines the phase's start hook, the hook has
\* been invoked exactly once by that call, and the complete hook exactly once
\* when the phase has completed with all its modules succeeding; the hooks
\* of phases not entered have not been invoked.
C22_PhaseHooks ==
  \A c \in Calls : \A o \in observers : \A p \in LifecyclePhase \ {INITIALIZATION} :
    LET f == calls[c]
    IN /\ onStartMethod(p) \in ObserverHooks[o] =>
            HookCalls(f, o, onStartMethod(p)) =
              (IF \E k \in 1..Len(f.entered) : f.entered[k] = p THEN 1 ELSE 0)
       /\ onCompleteMethod(p) \in ObserverHooks[o] =>
            HookCalls(f, o, onCompleteMethod(p)) =
              (IF Succeeded(f, p) THEN 1 ELSE 0)

\* C23: every event is delivered to every listener registered when it is
\* emitted, and no step after the emission is taken, nor does the emitting
\* operation return, while a promise returned by a listener is pending: no
\* state has a pending listener promise, as the model has no suspension
\* point inside an emission.
C23_ListenersAwaited ==
  /\ [][eventCounter' # eventCounter => notified' = listeners']_vars
  /\ [](pending = {})

\* C24: no step decreases or resets a counter of the statistics, global
\* (totalExecutions, successfulExecutions, failedExecutions) or per phase
\* (executionCount, successCount, failureCount), whatever public calls are
\* issued, a stop() followed by another start() included.
C24_CountersMonotonic ==
  [][/\ stats'.totalExecutions >= stats.totalExecutions
     /\ stats'.successfulExecutions >= stats.successfulExecutions
     /\ stats'.failedExecutions >= stats.failedExecutions
     /\ \A p \in LifecyclePhase :
          /\ phaseStats'[p].executionCount >= phaseStats[p].executionCount
          /\ phaseStats'[p].successCount >= phaseStats[p].successCount
          /\ phaseStats'[p].failureCount >= phaseStats[p].failureCount]_vars

\* two start() calls on one engine, with a pause(), resume() or stop() among
\* the calls issued, have both counted their run
C24_Witness ==
  /\ issued.control >= 1
  /\ stats.totalExecutions = 2
  /\ phaseStats[CLEANUP].executionCount = 2
  /\ \A c \in Calls : calls[c].op = "start" /\ calls[c].pc = "done"

\* the number of modules in the registry
Registered ==
  LET RECURSIVE Sum(_)
      Sum(P) == IF P = {} THEN 0
                ELSE LET p == CHOOSE q \in P : TRUE
                     IN Len(modules[p]) + Sum(P \ {p})
  IN Sum(LifecyclePhase)

\* C25: registerModule called with null or with an object that has no
\* initialize function is rejected: it leaves the registry of every phase
\* and the rest of the engine unchanged and emits no event.  Called with a
\* well-formed module it appends the module at the end of the list of the
\* given phase, leaves the lists of the other phases unchanged and emits
\* exactly one event, of level Info.
C25_RegisterModule ==
  [][issued'.modules # issued.modules =>
       \A p \in RegPhases :
         /\ \A m \in {"null", "noInitialize"} :
              /\ InvalidModule(m)
              /\ registerModule(p, m) => NothingChanges
         /\ registerModule(p, "wellFormed") =>
              /\ ~InvalidModule("wellFormed")
              /\ Len(modules'[p]) = Len(modules[p]) + 1
              /\ SubSeq(modules'[p], 1, Len(modules[p])) = modules[p]
              /\ Last(modules'[p]).phase = p
              /\ \A q \in LifecyclePhase \ {p} : modules'[q] = modules[q]
              /\ eventCounter' = eventCounter + 1
              /\ Last(eventHistory') =
                   [id |-> eventCounter', phase |-> p,
                    type |-> "module_registered", level |-> "INFO"]
              /\ UNCHANGED <<state, currentPhase, observers, listeners, stats,
                             phaseStats, config, calls>>]_vars

\* a malformed module was rejected by an engine that has registered a
\* well-formed one to the same phase before and one after
C25_Witness ==
  /\ issued.modules = Registered + 1
  /\ \E p \in RegPhases : Len(modules[p]) = 2

\* the step of frame c in which a module exhausts its retry budget, in the
\* initialization phase or in one of the five others
ModuleFailsForGood(c) ==
  /\ calls[c].pc = "race"
  /\ Len(calls'[c].settled) = Len(calls[c].settled) + 1
  /\ ~Last(calls'[c].settled).ok

\* the onError calls among the hook calls
OnErrorCalls(f) == SelectSeq(f.hooks, LAMBDA h : h.method = "onError")

\* C26: a module failure that the retries did not recover, in the
\* initialization phase or in one of the five others and whatever
\* continueOnError is, is appended once to the error list of the context,
\* is logged as one Error-level phase_error event carrying the phase, and
\* makes one onError(error, phase) call on every registered observer.
C26_FailureHandledOnce ==
  [][\A c \in Calls :
       ModuleFailsForGood(c) =>
         LET p == calls[c].phase
         IN /\ context'.errors =
                 Append(context.errors, [phase |-> p, error |-> "moduleFailed"])
            /\ calls'[c].phaseErrors =
                 Append(calls[c].phaseErrors, [phase |-> p, level |-> "ERROR"])
            /\ OnErrorCalls(calls'[c]) =
                 IF observers = {} THEN OnErrorCalls(calls[c])
                 ELSE Append(OnErrorCalls(calls[c]),
                             [method |-> "onError", on |-> observers,
                              args |-> <<"moduleFailed", p>>])]_vars

\* with continueOnError, the registered observers have been told about the
\* failure of an Execution module, the only error recorded so far
C26_Witness ==
  \E c \in Calls :
    /\ config.continueOnError
    /\ observers # {}
    /\ Len(context.errors) = 1
    /\ \E k \in 1..Len(calls[c].hooks) :
         /\ calls[c].hooks[k].method = "onError"
         /\ calls[c].hooks[k].args = <<"moduleFailed", EXECUTION>>

\* C27: the step in which a start() finishes the execution of one of the
\* five phases adds one to the phase's executionCount and one to its
\* successCount, or to its failureCount when a module failed for good in
\* that step, and changes no counter of another phase; every other step
\* leaves the counters alone.  Hence executionCount = successCount +
\* failureCount for each phase in every state.
C27_PhaseStats ==
  /\ [][\A c \in Calls :
          IF Len(calls'[c].finished) = Len(calls[c].finished) + 1
          THEN LET p == Last(calls'[c].finished)
                   failed == ModuleFailsForGood(c)
               IN /\ p \in LifecyclePhase \ {INITIALIZATION}
                  /\ phaseStats' =
                       [phaseStats EXCEPT ![p] =
                          [executionCount |-> @.executionCount + 1,
                           successCount |->
                             @.successCount + (IF failed THEN 0 ELSE 1),
                           failureCount |->
                             @.failureCount + (IF failed THEN 1 ELSE 0)]]
          ELSE calls'[c] # calls[c] => phaseStats' = phaseStats]_vars
  /\ [](\A p \in LifecyclePhase :
          phaseStats[p].executionCount =
            phaseStats[p].successCount + phaseStats[p].failureCount)

\* a run that went on after the failure of its Execution phase has counted
\* all five phases, one of them as failed
C27_Witness ==
  /\ phaseStats[EXECUTION].failureCount = 1
  /\ phaseStats[EXECUTION].successCount = 0
  /\ phaseStats[PREPARATION].successCount = 1
  /\ phaseStats[CLEANUP].executionCount = 1

\* the events the executor logs for n failed attempts that are retried
RetriedAttempts(n) ==
  [i \in 1..(2 * n) |->
     IF i % 2 = 1 THEN [type |-> "module_execute_start", level |-> "DEBUG"]
     ELSE [type |-> "module_execute_retry", level |-> "WARN"]]

\* C28: the events the executor logs for one module in one phase execution
\* are, per failed attempt that leaves retry budget, the start event and one
\* Warn-level retry event, logged before the next attempt starts; the attempt
\* that exhausts the budget logs one Error-level failure event and no retry
\* event.  A module failing at every attempt has logged maxRetries retry
\* events and then one failure event, none at all with maxRetries = 0.
C28_RetryEvents ==
  \A c \in Calls :
    LET f == calls[c]
    IN /\ f.pc = "race" =>
            /\ f.retries <= config.maxRetries
            /\ f.log = RetriedAttempts(f.retries)
                         \o <<[type |-> "module_execute_start", level |-> "DEBUG"]>>
       /\ f.pc = "retryDelay" =>
            /\ f.retries \in 1..config.maxRetries
            /\ f.log = RetriedAttempts(f.retries)
       /\ \A k \in 1..Len(f.settled) :
            ~f.settled[k].ok =>
              f.settled[k].log =
                RetriedAttempts(config.maxRetries)
                  \o <<[type |-> "module_execute_start", level |-> "DEBUG"],
                       [type |-> "module_execute_failed", level |-> "ERROR"]>>

\* a module has failed for good after its retries, each of them logged
C28_Witness ==
  \E c \in Calls :
    \E k \in 1..Len(calls[c].settled) :
      /\ ~calls[c].settled[k].ok
      /\ config.maxRetries = MaxRetriesBound
      /\ Cardinality(OfType(calls[c].settled[k].log, "module_execute_retry"))
           = MaxRetriesBound
      /\ Last(calls[c].settled[k].log).level = "ERROR"

\* C29: while a module of phase P is executing (its execute is awaited),
\* the current phase of the context and that of the engine
\* (getCurrentPhase()) are P, in the initialization phase as well as in the
\* five others, and the previous phase of the context is the phase that
\* precedes P in the run (none for Initialization; Initialization, or
\* Cleanup in a later run, for Preparation).
C29_CurrentPhase ==
  \A c \in Calls :
    calls[c].pc = "race" =>
      LET P == calls[c].phase
      IN /\ context.currentPhase = P
         /\ currentPhase = P
         /\ context.previousPhase \in
              (IF P = INITIALIZATION THEN {0}
               ELSE IF P = PREPARATION THEN {INITIALIZATION, CLEANUP}
               ELSE {phases[PhasePos(P) - 1]})

\* C30: the data map the modules work on is one and the same from
\* initialize() through all later runs.  A step changes it only when a
\* module sets a key, which then reads as the value written, whether the
\* key existed or not, and leaves the other keys alone; when a module
\* deletes a key; or when a module clears the map, which leaves no key.
\* Every other step (a phase entered, a run started, a call that fails)
\* leaves every key with the value written last, and a module that executes
\* always has the context.
C30_SharedContext ==
  /\ [][/\ \A c \in Calls, k \in Keys :
             ModuleSets(c, k) =>
               /\ get(context', k) = CurrentModule(c).phase
               /\ \A j \in Keys \ {k} : get(context', j) = get(context, j)
        /\ \A c \in Calls : ModuleClears(c) => \A k \in Keys : get(context', k) = 0
        /\ context'.data # context.data =>
             \E c \in Calls :
               \/ ModuleClears(c)
               \/ \E k \in Keys : ModuleSets(c, k) \/ ModuleDeletes(c, k)]_vars
  /\ [](\A c \in Calls : calls[c].pc = "race" => context.exists)

\* a module of the Execution phase is executing in a start() and finds the
\* key that a module of the Initialization phase has written
C30_Witness ==
  \E c \in Calls :
    /\ calls[c].op = "start"
    /\ calls[c].pc = "race"
    /\ calls[c].phase = EXECUTION
    /\ get(context, "a") = INITIALIZATION

\* C31: while a context exists every event emitted is appended to its
\* event list, in emission order, and none is ever removed from it: the list
\* holds the events with the ids up to the last one issued, without a gap,
\* and every step keeps the old list as a prefix of the new one and appends
\* one entry per event emitted.  The bounded history is a suffix of the
\* sequence of all the events emitted (the ids are the positions in it).
C31_ContextEvents ==
  /\ [](/\ context.exists =>
             \A i \in 1..Len(context.events) :
               context.events[i] = eventCounter - Len(context.events) + i
        /\ \A i \in 1..Len(eventHistory) :
             eventHistory[i].id = eventCounter - Len(eventHistory) + i
        /\ context.exists =>
             \A i \in 1..Len(eventHistory) :
               eventHistory[i].id > eventCounter - Len(context.events) =>
                 eventHistory[i].id =
                   context.events[Len(context.events) - Len(eventHistory) + i])
  /\ [][context.exists =>
          /\ context'.exists
          /\ IsPrefix(context.events, context'.events)
          /\ Len(context'.events) - Len(context.events)
               = eventCounter' - eventCounter]_vars

\* the context's list has outgrown the history by two events
C31_Witness ==
  /\ context.exists
  /\ Len(eventHistory) = config.maxHistorySize
  /\ Len(context.events) >= config.maxHistorySize + 2
  /\ eventHistory[1].id = context.events[Len(context.events) - Len(eventHistory) + 1]

\* the step emits at least one event
Emits == eventCounter' > eventCounter

\* C32: every mutating engine action emits an event: a registerModule that
\* stores the module, an addEventListener, a removeEventListener or
\* removeObserver that removes something, an addObserver, an initialize()
\* or start() that passes its state check, and a pause(), resume() or
\* stop() that changes the state, each add at least one event to the
\* emitted sequence.
C32_MutatingActionsEmit ==
  [][/\ (\E p \in RegPhases, m \in DOMAIN ModuleObjects :
           registerModule(p, m) /\ modules' # modules) => Emits
     /\ (\E l \in Listeners : addEventListener(l)) => Emits
     /\ (\E l \in listeners : removeEventListener(l)) => Emits
     /\ (\E o \in Observers : addObserver(o)) => Emits
     /\ (\E o \in observers : removeObserver(o)) => Emits
     /\ (\E c \in Calls : (Initialize(c) \/ Start(c))
                              /\ calls'[c].result # "threw") => Emits
     /\ ((pause \/ resume \/ stop) /\ state' # state) => Emits]_vars

\* the last k elements of a sequence, all of them when it has fewer
LastOf(h, k) == SubSeq(h, Len(h) - (IF k < Len(h) THEN k ELSE Len(h)) + 1, Len(h))

\* C33: getEventHistory(limit) returns at most limit events for every
\* limit >= 0, 0 included: the last min(limit, n) events of the n-event
\* history, in emission order; getEventHistory() without a limit returns
\* all the n events; and the call leaves the history as it is.
C33_GetEventHistory ==
  [][\A args \in Limits :
       getEventHistoryCalled(args) =>
         /\ eventHistory' = eventHistory
         /\ returned'.events =
              (IF args = <<>> THEN eventHistory
               ELSE LastOf(eventHistory, args[1]))
         /\ args # <<>> => Len(returned'.events) <= args[1]]_vars

\* C40: in an engine constructed with saveHistory = false the history is
\* empty in every reachable state and getEventHistory() returns no event,
\* while every event emitted is delivered to all the registered listeners,
\* is appended to the context's list when a context exists, and takes the
\* next event id: the ids never decrease and the context's list holds
\* consecutive ids up to the last one issued.
C40_NoHistory ==
  /\ [](~config.saveHistory =>
          /\ eventHistory = <<>>
          /\ getEventHistory(Eng, <<>>) = <<>>
          /\ returned.events = <<>>
          /\ context.exists =>
               \A i \in 1..Len(context.events) :
                 context.events[i] = eventCounter - Len(context.events) + i)
  /\ [][~config.saveHistory =>
          /\ eventCounter' >= eventCounter
          /\ Emits => notified' = listeners'
          /\ context.exists =>
               /\ IsPrefix(context.events, context'.events)
               /\ Len(context'.events) - Len(context.events)
                    = eventCounter' - eventCounter]_vars

\* an engine without history has delivered the events of an initialization
\* to its listener and put them on the context's list
C40_Witness ==
  /\ ~config.saveHistory
  /\ eventHistory = <<>>
  /\ listeners # {}
  /\ notified = listeners
  /\ context.exists
  /\ Len(context.events) >= 2
  /\ Last(context.events) = eventCounter

\* C34: Error is terminal for every operation but stop(): in the Error
\* state initialize() and start() fail and pause() and resume() do
\* nothing, none of them changing the engine, and the state is left only by
\* a stop(), so that phases run again only after stop() followed by
\* start().
C34_ErrorTerminal ==
  [][state = "ERROR" =>
       /\ \A c \in Calls :
            (Initialize(c) \/ Start(c)) =>
              /\ calls'[c].result = "threw"
              /\ calls'[c].entered = <<>>
              /\ EngineUnchanged
       /\ (pause \/ resume) => NothingChanges
       /\ state' # "ERROR" => stop
       /\ \A c \in Calls : Len(calls'[c].entered) = Len(calls[c].entered)]_vars

\* the outcomes the next step of a start() run inside a phase can have, were
\* the state st
StepOutcomes(c, st) ==
  LET S == [Here(c) EXCEPT !.e.state = st]
  IN CASE calls[c].pc = "race" ->
            <<AttemptSucceeded(S, c), AttemptFailed(S, c, "moduleFailed")>>
       [] calls[c].pc = "retryDelay" -> <<BeginAttempt(S, c)>>
       [] calls[c].pc = "phaseAwait" -> <<ModulesReturned(S, c)>>

\* what a step has done to the run and to the engine, the state left aside
\* unless the run has ended
Progress(R) ==
  [f |-> R.f, currentPhase |-> R.e.currentPhase, stats |-> R.e.stats,
   phaseStats |-> R.e.phaseStats, eventCounter |-> R.e.eventCounter,
   context |-> R.e.context,
   state |-> IF R.f.pc = "done" THEN R.e.state ELSE "any"]

\* the step in which a start() run inside its phases ends
RunEnds(c) ==
  /\ calls[c].op = "start"
  /\ InPhase(calls[c])
  /\ calls'[c].pc = "done"

InitFailsInStart(c) ==
  /\ calls[c].op = "start"
  /\ calls[c].inInit
  /\ calls[c].pc # "done"
  /\ calls'[c].pc = "done"

\* C36: when the initialization that a start() on an Uninitialized engine
\* performs fails, start() raises the failure without entering any of the
\* five phases, the state is Error, and the global statistics keep their
\* values: no run is counted, neither as an execution nor as a failed one.
C36_ImplicitInitFails ==
  [][\A c \in Calls :
       InitFailsInStart(c) =>
         /\ calls'[c].result = "threw"
         /\ calls'[c].error \in {"moduleFailed", "observerFailed"}
         /\ calls'[c].entered = <<>>
         /\ state' = "ERROR"
         /\ stats' = stats]_vars

\* a start() on an Uninitialized engine has raised the failure of an
\* initialization module
C36_Witness ==
  \E c \in Calls :
    /\ calls[c].op = "start"
    /\ calls[c].inInit
    /\ calls[c].result = "threw"
    /\ calls[c].error = "moduleFailed"
    /\ calls[c].entered = <<>>
    /\ state = "ERROR"
    /\ stats.totalExecutions = 0
    /\ stats.failedExecutions = 0

\* C37: the initialization ignores continueOnError: whatever the option,
\* an initialization module that exhausts its retries ends the call with
\* the failure raised and the state Error, and no further initialization
\* module is run.  initialize() never writes the statistics of the
\* Initialization phase: its three counters are 0 in every state.
C37_InitIgnoresContinueOnError ==
  /\ [](phaseStats[INITIALIZATION] =
          [executionCount |-> 0, successCount |-> 0, failureCount |-> 0])
  /\ [][\A c \in Calls :
          (calls[c].inInit /\ ModuleFailsForGood(c)) =>
            /\ calls'[c].pc = "done"
            /\ calls'[c].result = "threw"
            /\ calls'[c].error = "moduleFailed"
            /\ calls'[c].ran = calls[c].ran
            /\ state' = "ERROR"]_vars

\* with continueOnError = true the first of two initialization modules has
\* failed for good: the call has raised and the second module was not run
C37_Witness ==
  \E c \in Calls :
    /\ config.continueOnError
    /\ calls[c].inInit
    /\ calls[c].result = "threw"
    /\ calls[c].error = "moduleFailed"
    /\ Len(modules[INITIALIZATION]) >= 2
    /\ calls[c].ran = <<<<INITIALIZATION, 1>>>>
    /\ state = "ERROR"

\* the step in which a module of one of the five phases fails for good
PhaseFails(c) == ~calls[c].inInit /\ ModuleFailsForGood(c)

\* C38: with continueOnError = true a start() run in which phases failed
\* counts as a successful run: the step that ends it returns, increases
\* successfulExecutions by one and leaves failedExecutions alone; no run is
\* ever counted as failed and no Critical-level event is in the history.
\* The failure shows in the failed phase's failureCount, in the context's
\* error list and in an Error-level event, all written by the step in which
\* the phase fails.
C38_FailedPhasesStillSuccess ==
  /\ [](config.continueOnError =>
          /\ stats.failedExecutions = 0
          /\ \A i \in 1..Len(eventHistory) : eventHistory[i].level # "CRITICAL")
  /\ [][config.continueOnError =>
          \A c \in Calls :
            /\ RunEnds(c) =>
                 /\ calls'[c].result = "returned"
                 /\ stats'.successfulExecutions = stats.successfulExecutions + 1
                 /\ stats'.failedExecutions = stats.failedExecutions
            /\ PhaseFails(c) =>
                 LET p == calls[c].phase
                 IN /\ phaseStats'[p].failureCount = phaseStats[p].failureCount + 1
                    /\ phaseStats'[p].successCount = phaseStats[p].successCount
                    /\ context'.errors =
                         Append(context.errors, [phase |-> p, error |-> "moduleFailed"])
                    /\ calls'[c].phaseErrors =
                         Append(calls[c].phaseErrors, [phase |-> p, level |-> "ERROR"])
                    /\ Last(calls'[c].settled).log[Len(Last(calls'[c].settled).log)]
                         = [type |-> "module_execute_failed", level |-> "ERROR"]]_vars

\* with continueOnError = true a start() has returned, counted as a success,
\* after a module of one of its phases failed for good
C38_Witness ==
  \E c \in Calls :
    /\ config.continueOnError
    /\ calls[c].op = "start"
    /\ calls[c].result = "returned"
    /\ calls[c].phaseErrors # <<>>
    /\ stats.successfulExecutions = 1
    /\ stats.failedExecutions = 0
    /\ phaseStats[calls[c].phaseErrors[1].phase].failureCount = 1
    /\ context.errors # <<>>

\* the start() calls that got past the state check and have ended
RunsEnded ==
  {c \in Calls : /\ calls[c].op = "start"
                 /\ calls[c].pc = "done"
                 /\ calls[c].entered # <<>>}

\* C39: totalExecutions = successfulExecutions + failedExecutions, in the
\* states without a start() call in progress (and in all the others), and
\* totalExecutions is the number of start() calls that got past the state
\* check and have ended: each of them has added exactly one when it ended.
C39_TotalIsSum ==
  /\ stats.totalExecutions =
       stats.successfulExecutions + stats.failedExecutions
  /\ stats.totalExecutions = Cardinality(RunsEnded)

\* a successful and a failed run have ended and no call is in progress
C39_Witness ==
  /\ stats.successfulExecutions = 1
  /\ stats.failedExecutions = 1
  /\ stats.totalExecutions = 2
  /\ \A c \in Calls : calls[c].pc = "done"

====
